---- MODULE Spec2Model ----
(***************************************************************************)
(* Model of the asefile palette and slice chunk decoders                   *)
(* (src/src/palette.rs, src/src/slice.rs).                                 *)
(*                                                                         *)
(* A decode is a run of the state machine: each primitive read of the     *)
(* byte reader is one step.  After a first decode has finished, the       *)
(* buffer may be re-encoded from the decoded value or shortened by one    *)
(* byte, and decoded a second time.                                        *)
(*                                                                         *)
(* Integer widths.  TLC's integers are 32-bit signed, so a u32 cannot be  *)
(* held at its real width.  The width of a byte is ByteBits; a word is 2  *)
(* bytes and a dword 4 bytes, little-endian, exactly as in the format,    *)
(* and all u32 arithmetic is taken modulo U32Mod = 2^(4*ByteBits).         *)
(***************************************************************************)
EXTENDS Integers, Sequences, FiniteSets, TLC

\* ---------------------------------------------------------------- bounds
ByteBits == 4
MaxEntries == 3
MaxKeys == 2
MaxPixels == 3

ByteMod == 2 ^ ByteBits
ByteMax == ByteMod - 1
WordMod == ByteMod * ByteMod
U32Mod == WordMod * WordMod
U32Max == U32Mod - 1

\* Option<T>
None == << >>
Some(x) == << x >>
IsSome(o) == o # << >>

\* ---------------------------------------------------------------- errors
NoError == [kind |-> "", what |-> "", a |-> 0, b |-> 0]
UnexpectedEof == [kind |-> "UnexpectedEof", what |-> "", a |-> 0, b |-> 0]
InvalidUtf8 == [kind |-> "InvalidUtf8", what |-> "", a |-> 0, b |-> 0]
\* AsepriteParseError::InvalidInput(format!(...)): the text and the two
\* values formatted into it
InvalidInput(what, a, b) == [kind |-> "InvalidInput", what |-> what, a |-> a, b |-> b]

\* ---------------------------------------------------------------- reader
\* The outcome of one primitive read: the value and the cursor after it.
ReadOk(v, p) == [ok |-> TRUE, val |-> v, err |-> NoError, pos |-> p]
ReadErr(e, p) == [ok |-> FALSE, val |-> 0, err |-> e, pos |-> p]

\* Single-byte code points only: a byte with its high bit set is not valid
\* on its own.
IsUtf8(bytes) == \A i \in 1..Len(bytes) : bytes[i] < ByteMod \div 2

byte(d, p) ==
  IF p + 1 <= Len(d) THEN ReadOk(d[p + 1], p + 1) ELSE ReadErr(UnexpectedEof, p)

word(d, p) ==
  IF p + 2 <= Len(d)
    THEN ReadOk(d[p + 1] + ByteMod * d[p + 2], p + 2)
    ELSE ReadErr(UnexpectedEof, p)

\* mutant: at the end of the buffer the read yields 0 and still advances
dword_PastEnd(d, p) ==
  IF p + 4 <= Len(d)
    THEN ReadOk(d[p + 1] + ByteMod * d[p + 2]
                + WordMod * d[p + 3] + WordMod * ByteMod * d[p + 4], p + 4)
    ELSE ReadOk(0, p + 4)

dword(d, p) ==
  IF p + 4 <= Len(d)
    THEN ReadOk(d[p + 1] + ByteMod * d[p + 2]
                + WordMod * d[p + 3] + WordMod * ByteMod * d[p + 4], p + 4)
    ELSE ReadErr(UnexpectedEof, p)

\* i32, two's complement
long(d, p) ==
  LET r == dword(d, p) IN
  IF r.ok /\ r.val >= U32Mod \div 2 THEN ReadOk(r.val - U32Mod, r.pos) ELSE r

string(d, p) ==
  LET n == word(d, p) IN
  IF ~n.ok THEN n
  ELSE IF n.pos + n.val > Len(d) THEN ReadErr(UnexpectedEof, n.pos)
  ELSE LET bytes == SubSeq(d, n.pos + 1, n.pos + n.val) IN
       IF IsUtf8(bytes) THEN ReadOk(bytes, n.pos + n.val)
       ELSE ReadErr(InvalidUtf8, n.pos + n.val)

skip_reserved(d, p, n) ==
  IF p + n <= Len(d) THEN ReadOk(0, p + n) ELSE ReadErr(UnexpectedEof, p)

\* ------------------------------------------------------- section-6 layout
LE16(v) == << v % ByteMod, (v \div ByteMod) % ByteMod >>
LE32(v) == LE16(v % WordMod) \o LE16((v \div WordMod) % WordMod)
\* i32 on the wire
LE32s(v) == LE32(v % U32Mod)

Zeros(n) == [i \in 1..n |-> 0]

RECURSIVE Flat(_)
Flat(ss) == IF ss = << >> THEN << >> ELSE Head(ss) \o Flat(Tail(ss))

\* one palette record: [flags, rgba8, name : Option<bytes>]
EntryBytes(e) ==
  LE16(e.flags) \o e.rgba8
  \o (IF e.flags % 2 = 1 THEN LE16(Len(e.name[1])) \o e.name[1] ELSE << >>)

PaletteBytes(total, first, last, records) ==
  LE32(total) \o LE32(first) \o LE32(last) \o Zeros(8)
  \o Flat([i \in 1..Len(records) |-> EntryBytes(records[i])])

\* one slice key: slice9 and pivot are written when present
KeyBytes(k) ==
  LE32(k.from_frame) \o LE32s(k.origin.x) \o LE32s(k.origin.y)
  \o LE32(k.size.width) \o LE32(k.size.height)
  \o (IF IsSome(k.slice9)
        THEN LE32s(k.slice9[1].center_x) \o LE32s(k.slice9[1].center_y)
             \o LE32(k.slice9[1].center_width) \o LE32(k.slice9[1].center_height)
        ELSE << >>)
  \o (IF IsSome(k.pivot)
        THEN LE32s(k.pivot[1].x) \o LE32s(k.pivot[1].y)
        ELSE << >>)

SliceBytes(num, flags, name, keys) ==
  LE32(num) \o LE32(flags) \o LE32(0) \o LE16(Len(name)) \o name
  \o Flat([i \in 1..Len(keys) |-> KeyBytes(keys[i])])

VARIABLES
  kind,             \* which decoder runs: "palette" or "slice"
  overflow_checks,  \* build profile: TRUE = arithmetic overflow panics
  input,            \* the logical chunk the buffer was laid out from
  data,             \* the chunk buffer handed to parse_chunk
  pos,              \* AseReader cursor
  nreads,           \* number of primitive reads performed on the reader
  read_error,       \* Option: the error of the read that failed
  pc,               \* position in parse_chunk
  pal,              \* locals of palette::parse_chunk
  slc,              \* locals of slice::parse_chunk
  key,              \* locals of SliceKey::read and the sub-record reads
  result,           \* what parse_chunk returned
  pass,             \* 1: first decode, 2: decode of the derived buffer
  derived,          \* how the buffer of pass 2 was derived from pass 1
  first_result,     \* what the first decode returned
  indexed_pixels,   \* argument of validate_indexed_pixels
  validated         \* what validate_indexed_pixels returned

vars == << kind, overflow_checks, input, data, pos, nreads, read_error, pc,
           pal, slc, key, result, pass, derived, first_result,
           indexed_pixels, validated >>

NoResult == [tag |-> "none", value |-> << >>, error |-> NoError]
Ok(v) == [tag |-> "Ok", value |-> v, error |-> NoError]
Err(e) == [tag |-> "Err", value |-> << >>, error |-> e]
Panic == [tag |-> "panic", value |-> << >>, error |-> NoError]

\* ------------------------------------------------------------ the inputs
Red == << ByteMax, 0, 0, ByteMax >>
Green == << 0, ByteMax, 1, 2 >>
\* the empty name, a one-letter name, a byte that is not UTF-8
NameValues == { << >>, << 1 >>, << ByteMax >> }
\* unnamed records (flag bit 0 clear, bit 1 is not a defined flag) and named ones
EntryRecords ==
  { [flags |-> 0, rgba8 |-> Red, name |-> None],
    [flags |-> 2, rgba8 |-> Green, name |-> None] }
  \cup { [flags |-> 1, rgba8 |-> Green, name |-> Some(n)] : n \in NameValues }

SeqsUpTo(S, n) == UNION { [1..k -> S] : k \in 0..n }

IndexValues == {0, 1, U32Max}

PalLocals0 ==
  [num_total_entries |-> 0, first_color_index |-> 0, last_color_index |-> 0,
   count |-> 0, id |-> 0, flags |-> 0, red |-> 0, green |-> 0, blue |-> 0,
   alpha |-> 0, name |-> None, entries |-> << >>]

SlcLocals0 == [num_slice_keys |-> 0, flags |-> 0, name |-> << >>, i |-> 0, keys |-> << >>]

KeyLocals0 ==
  [from_frame |-> 0, origin |-> << >>, size |-> << >>, slice9 |-> None,
   pivot |-> None, tmp |-> << >>]

\* two keys with every sub-record filled in; the flags decide what is laid out
KeyValues ==
  { [from_frame |-> 0, origin |-> [x |-> 10, y |-> 20],
     size |-> [width |-> 5, height |-> 5],
     slice9 |-> Some([center_x |-> 1, center_y |-> 1,
                      center_width |-> 2, center_height |-> 2]),
     pivot |-> Some([x |-> 2, y |-> 2])],
    [from_frame |-> 1, origin |-> [x |-> -1, y |-> 0 - (U32Mod \div 2)],
     size |-> [width |-> 0, height |-> U32Max],
     slice9 |-> Some([center_x |-> -2, center_y |-> 0,
                      center_width |-> U32Max, center_height |-> 1]),
     pivot |-> Some([x |-> -3, y |-> 4])] }

SliceFlagValues == {0, 1, 2, 3, 4}

\* the key as laid out under the chunk flags
Gate(k, flags) ==
  [k EXCEPT !.slice9 = IF flags % 2 = 1 THEN @ ELSE None,
            !.pivot = IF (flags \div 2) % 2 = 1 THEN @ ELSE None]

NotDerived == [how |-> "none", at |-> 0, of |-> 0]

StartPc(k) == IF k = "palette" THEN "p_total" ELSE "s_num"

InitPalette ==
  \E first \in IndexValues, last \in IndexValues \cup {2},
     records \in SeqsUpTo(EntryRecords, MaxEntries) :
    /\ kind = "palette"
    /\ input = [first |-> first, last |-> last, records |-> records]
    /\ data = PaletteBytes(Len(records), first, last, records)

InitSlice ==
  \E num \in (0..MaxKeys) \cup {U32Max}, flags \in SliceFlagValues,
     name \in NameValues, keys \in SeqsUpTo(KeyValues, MaxKeys) :
    LET laid == [i \in 1..Len(keys) |-> Gate(keys[i], flags)] IN
    /\ kind = "slice"
    /\ input = [num |-> num, flags |-> flags, name |-> name, keys |-> laid]
    /\ data = SliceBytes(num, flags, name, laid)

\* the slice decoder does no arithmetic: the build profile only matters to
\* the palette decoder
Init ==
  /\ \/ InitPalette /\ overflow_checks \in BOOLEAN
     \/ InitSlice /\ overflow_checks = FALSE
  /\ pc = StartPc(kind)
  /\ pos = 0
  /\ nreads = 0
  /\ read_error = None
  /\ pal = PalLocals0
  /\ slc = SlcLocals0
  /\ key = KeyLocals0
  /\ result = NoResult
  /\ pass = 1
  /\ derived = NotDerived
  /\ first_result = NoResult
  /\ indexed_pixels = << >>
  /\ validated = NoResult

\* ------------------------------------------------------------- `?`
\* reader.f()? : the cursor moves as the read says; on Err parse_chunk
\* returns that error, on Ok it goes on at `next`.
Try(r, next) ==
  /\ pos' = r.pos
  /\ nreads' = nreads + 1
  /\ IF r.ok
       THEN /\ pc' = next
            /\ UNCHANGED << result, read_error >>
       ELSE /\ pc' = "done"
            /\ result' = Err(r.err)
            /\ read_error' = Some(r.err)

Frame == UNCHANGED << kind, overflow_checks, input, data, pass, derived,
                      first_result, indexed_pixels, validated >>
PalFrame == Frame /\ UNCHANGED << slc, key >>
SlcFrame == Frame /\ UNCHANGED pal

\* ------------------------------------------------ palette::parse_chunk
PalTotal ==
  /\ pc = "p_total"
  /\ LET r == dword(data, pos) IN
       /\ Try(r, "p_first")
       /\ pal' = IF r.ok THEN [pal EXCEPT !.num_total_entries = r.val] ELSE pal
  /\ PalFrame

PalFirst ==
  /\ pc = "p_first"
  /\ LET r == dword(data, pos) IN
       /\ Try(r, "p_last")
       /\ pal' = IF r.ok THEN [pal EXCEPT !.first_color_index = r.val] ELSE pal
  /\ PalFrame

PalLast ==
  /\ pc = "p_last"
  /\ LET r == dword(data, pos) IN
       /\ Try(r, "p_reserved")
       /\ pal' = IF r.ok THEN [pal EXCEPT !.last_color_index = r.val] ELSE pal
  /\ PalFrame

PalReserved ==
  /\ pc = "p_reserved"
  /\ Try(skip_reserved(data, pos, 8), "p_check")
  /\ UNCHANGED pal
  /\ PalFrame

\* mutant: the range is not validated
PalCheck_Unchecked ==
  /\ pc = "p_check"
  /\ pc' = "p_count"
  /\ UNCHANGED << result, pos, nreads, read_error, pal >>
  /\ PalFrame

\* if last_color_index < first_color_index { return Err(InvalidInput) }
PalCheck ==
  /\ pc = "p_check"
  /\ IF pal.last_color_index < pal.first_color_index
       THEN /\ result' = Err(InvalidInput("Bad palette color indices",
                                          pal.first_color_index, pal.last_color_index))
            /\ pc' = "done"
       ELSE /\ pc' = "p_count"
            /\ UNCHANGED result
  /\ UNCHANGED << pos, nreads, read_error, pal >>
  /\ PalFrame

\* let count = last_color_index - first_color_index + 1;   (u32)
PalCount ==
  /\ pc = "p_count"
  /\ LET c == pal.last_color_index - pal.first_color_index + 1 IN
       IF c > U32Max /\ overflow_checks
         THEN /\ result' = Panic
              /\ pc' = "done"
              /\ UNCHANGED pal
         ELSE /\ pal' = [pal EXCEPT !.count = c % U32Mod, !.id = 0,
                                    !.entries = << >>]
              /\ pc' = "p_loop"
              /\ UNCHANGED result
  /\ UNCHANGED << pos, nreads, read_error >>
  /\ PalFrame

\* for id in 0..count { ... }  Ok(ColorPalette { entries })
PalLoop ==
  /\ pc = "p_loop"
  /\ IF pal.id < pal.count
       THEN /\ pc' = "p_flags"
            /\ UNCHANGED result
       ELSE /\ pc' = "done"
            /\ result' = Ok(pal.entries)
  /\ UNCHANGED << pos, nreads, read_error, pal >>
  /\ PalFrame

PalFlags ==
  /\ pc = "p_flags"
  /\ LET r == word(data, pos) IN
       /\ Try(r, "p_red")
       /\ pal' = IF r.ok THEN [pal EXCEPT !.flags = r.val] ELSE pal
  /\ PalFrame

PalRed ==
  /\ pc = "p_red"
  /\ LET r == byte(data, pos) IN
       /\ Try(r, "p_green")
       /\ pal' = IF r.ok THEN [pal EXCEPT !.red = r.val] ELSE pal
  /\ PalFrame

PalGreen ==
  /\ pc = "p_green"
  /\ LET r == byte(data, pos) IN
       /\ Try(r, "p_blue")
       /\ pal' = IF r.ok THEN [pal EXCEPT !.green = r.val] ELSE pal
  /\ PalFrame

PalBlue ==
  /\ pc = "p_blue"
  /\ LET r == byte(data, pos) IN
       /\ Try(r, "p_alpha")
       /\ pal' = IF r.ok THEN [pal EXCEPT !.blue = r.val] ELSE pal
  /\ PalFrame

\* mutant: reader.byte().unwrap_or(0)
PalAlpha_OrZero ==
  /\ pc = "p_alpha"
  /\ LET r == byte(data, pos) IN
       /\ pos' = r.pos
       /\ nreads' = nreads + 1
       /\ pc' = "p_name"
       /\ pal' = [pal EXCEPT !.alpha = IF r.ok THEN r.val ELSE 0]
  /\ UNCHANGED << result, read_error >>
  /\ PalFrame

PalAlpha ==
  /\ pc = "p_alpha"
  /\ LET r == byte(data, pos) IN
       /\ Try(r, "p_name")
       /\ pal' = IF r.ok THEN [pal EXCEPT !.alpha = r.val] ELSE pal
  /\ PalFrame

\* let name = if flags & 1 == 1 { Some(reader.string()?) } else { None };
PalName ==
  /\ pc = "p_name"
  /\ IF pal.flags % 2 = 1
       THEN LET r == string(data, pos) IN
              /\ Try(r, "p_insert")
              /\ pal' = IF r.ok THEN [pal EXCEPT !.name = Some(r.val)] ELSE pal
       ELSE /\ pal' = [pal EXCEPT !.name = None]
            /\ pc' = "p_insert"
            /\ UNCHANGED << pos, nreads, read_error, result >>
  /\ PalFrame

\* IntMap::insert: the entry at `k` is replaced or added
MapInsert(m, k, v) ==
  [x \in (DOMAIN m) \cup {k} |-> IF x = k THEN v ELSE m[x]]

\* let id = id + first_color_index; entries.insert(id, ColorPaletteEntry{..})
PalInsert ==
  /\ pc = "p_insert"
  /\ LET id == pal.id + pal.first_color_index IN
       pal' = [pal EXCEPT
                 !.entries = MapInsert(pal.entries, id,
                               [id |-> id,
                                rgba8 |-> << pal.red, pal.green, pal.blue, pal.alpha >>,
                                name |-> pal.name]),
                 !.id = pal.id + 1]
  /\ pc' = "p_loop"
  /\ UNCHANGED << pos, nreads, read_error, result >>
  /\ PalFrame

\* -------------------------------------------------- slice::parse_chunk
SlcNum ==
  /\ pc = "s_num"
  /\ LET r == dword(data, pos) IN
       /\ Try(r, "s_flags")
       /\ slc' = IF r.ok THEN [slc EXCEPT !.num_slice_keys = r.val] ELSE slc
  /\ UNCHANGED key
  /\ SlcFrame

SlcFlags ==
  /\ pc = "s_flags"
  /\ LET r == dword(data, pos) IN
       /\ Try(r, "s_reserved")
       /\ slc' = IF r.ok THEN [slc EXCEPT !.flags = r.val] ELSE slc
  /\ UNCHANGED key
  /\ SlcFrame

SlcReserved ==
  /\ pc = "s_reserved"
  /\ Try(dword(data, pos), "s_name")
  /\ UNCHANGED << slc, key >>
  /\ SlcFrame

SlcName ==
  /\ pc = "s_name"
  /\ LET r == string(data, pos) IN
       /\ Try(r, "s_loop")
       /\ slc' = IF r.ok THEN [slc EXCEPT !.name = r.val, !.i = 0, !.keys = << >>]
                 ELSE slc
  /\ UNCHANGED key
  /\ SlcFrame

\* (0..num_slice_keys).map(|_id| SliceKey::read(..)).collect(), and
\* Ok(Slice { name, keys: slice_keys?, user_data: None }) once it is exhausted
SlcLoop ==
  /\ pc = "s_loop"
  /\ IF slc.i < slc.num_slice_keys
       THEN /\ pc' = "k_from_frame"
            /\ key' = KeyLocals0
            /\ UNCHANGED result
       ELSE /\ pc' = "done"
            /\ result' = Ok([name |-> slc.name, keys |-> slc.keys, user_data |-> None])
            /\ UNCHANGED key
  /\ UNCHANGED << pos, nreads, read_error, slc >>
  /\ SlcFrame

\* mutant: a from_frame that cannot be read ends the keys; the Slice built so
\* far is returned
KeyFromFrame_EofEndsKeys ==
  /\ pc = "k_from_frame"
  /\ LET r == dword(data, pos) IN
       /\ pos' = r.pos
       /\ nreads' = nreads + 1
       /\ IF r.ok
            THEN /\ pc' = "o_x"
                 /\ key' = [key EXCEPT !.from_frame = r.val]
                 /\ UNCHANGED << result, read_error >>
            ELSE /\ pc' = "done"
                 /\ read_error' = Some(r.err)
                 /\ result' = Ok([name |-> slc.name, keys |-> slc.keys,
                                  user_data |-> None])
                 /\ UNCHANGED key
  /\ UNCHANGED slc
  /\ SlcFrame

\* SliceKey::read
KeyFromFrame ==
  /\ pc = "k_from_frame"
  /\ LET r == dword(data, pos) IN
       /\ Try(r, "o_x")
       /\ key' = IF r.ok THEN [key EXCEPT !.from_frame = r.val] ELSE key
  /\ UNCHANGED slc
  /\ SlcFrame

\* SliceOrigin::read
OriginX ==
  /\ pc = "o_x"
  /\ LET r == long(data, pos) IN
       /\ Try(r, "o_y")
       /\ key' = IF r.ok THEN [key EXCEPT !.tmp = << r.val >>] ELSE key
  /\ UNCHANGED slc
  /\ SlcFrame

\* mutant: Ok(Self { x: y, y: x })
OriginY_Swapped ==
  /\ pc = "o_y"
  /\ LET r == long(data, pos) IN
       /\ Try(r, "z_width")
       /\ key' = IF r.ok
                   THEN [key EXCEPT !.origin = [x |-> r.val, y |-> key.tmp[1]],
                                    !.tmp = << >>]
                   ELSE key
  /\ UNCHANGED slc
  /\ SlcFrame

OriginY ==
  /\ pc = "o_y"
  /\ LET r == long(data, pos) IN
       /\ Try(r, "z_width")
       /\ key' = IF r.ok
                   THEN [key EXCEPT !.origin = [x |-> key.tmp[1], y |-> r.val],
                                    !.tmp = << >>]
                   ELSE key
  /\ UNCHANGED slc
  /\ SlcFrame

\* SliceSize::read
SizeWidth ==
  /\ pc = "z_width"
  /\ LET r == dword(data, pos) IN
       /\ Try(r, "z_height")
       /\ key' = IF r.ok THEN [key EXCEPT !.tmp = << r.val >>] ELSE key
  /\ UNCHANGED slc
  /\ SlcFrame

SizeHeight ==
  /\ pc = "z_height"
  /\ LET r == dword(data, pos) IN
       /\ Try(r, "k_slice9")
       /\ key' = IF r.ok
                   THEN [key EXCEPT !.size = [width |-> key.tmp[1], height |-> r.val],
                                    !.tmp = << >>]
                   ELSE key
  /\ UNCHANGED slc
  /\ SlcFrame

\* mutant: if flags != 0
KeySlice9_AnyFlag ==
  /\ pc = "k_slice9"
  /\ IF slc.flags # 0
       THEN /\ pc' = "n_center_x"
            /\ UNCHANGED key
       ELSE /\ pc' = "k_pivot"
            /\ key' = [key EXCEPT !.slice9 = None]
  /\ UNCHANGED << pos, nreads, read_error, result, slc >>
  /\ SlcFrame

\* let slice9 = if flags & 1 != 0 { Some(Slice9::read(reader)?) } else { None };
KeySlice9 ==
  /\ pc = "k_slice9"
  /\ IF slc.flags % 2 # 0
       THEN /\ pc' = "n_center_x"
            /\ UNCHANGED key
       ELSE /\ pc' = "k_pivot"
            /\ key' = [key EXCEPT !.slice9 = None]
  /\ UNCHANGED << pos, nreads, read_error, result, slc >>
  /\ SlcFrame

\* Slice9::read
Slice9CenterX ==
  /\ pc = "n_center_x"
  /\ LET r == long(data, pos) IN
       /\ Try(r, "n_center_y")
       /\ key' = IF r.ok THEN [key EXCEPT !.tmp = << r.val >>] ELSE key
  /\ UNCHANGED slc
  /\ SlcFrame

Slice9CenterY ==
  /\ pc = "n_center_y"
  /\ LET r == long(data, pos) IN
       /\ Try(r, "n_center_width")
       /\ key' = IF r.ok THEN [key EXCEPT !.tmp = Append(@, r.val)] ELSE key
  /\ UNCHANGED slc
  /\ SlcFrame

Slice9CenterWidth ==
  /\ pc = "n_center_width"
  /\ LET r == dword(data, pos) IN
       /\ Try(r, "n_center_height")
       /\ key' = IF r.ok THEN [key EXCEPT !.tmp = Append(@, r.val)] ELSE key
  /\ UNCHANGED slc
  /\ SlcFrame

Slice9CenterHeight ==
  /\ pc = "n_center_height"
  /\ LET r == dword(data, pos) IN
       /\ Try(r, "k_pivot")
       /\ key' = IF r.ok
                   THEN [key EXCEPT
                           !.slice9 = Some([center_x |-> key.tmp[1],
                                            center_y |-> key.tmp[2],
                                            center_width |-> key.tmp[3],
                                            center_height |-> r.val]),
                           !.tmp = << >>]
                   ELSE key
  /\ UNCHANGED slc
  /\ SlcFrame

\* let pivot = if flags & 2 != 0 { Some(SlicePivot::read(reader)?) } else { None };
KeyPivot ==
  /\ pc = "k_pivot"
  /\ IF (slc.flags \div 2) % 2 # 0
       THEN /\ pc' = "v_x"
            /\ UNCHANGED key
       ELSE /\ pc' = "k_ok"
            /\ key' = [key EXCEPT !.pivot = None]
  /\ UNCHANGED << pos, nreads, read_error, result, slc >>
  /\ SlcFrame

\* SlicePivot::read
PivotX ==
  /\ pc = "v_x"
  /\ LET r == long(data, pos) IN
       /\ Try(r, "v_y")
       /\ key' = IF r.ok THEN [key EXCEPT !.tmp = << r.val >>] ELSE key
  /\ UNCHANGED slc
  /\ SlcFrame

PivotY ==
  /\ pc = "v_y"
  /\ LET r == long(data, pos) IN
       /\ Try(r, "k_ok")
       /\ key' = IF r.ok
                   THEN [key EXCEPT !.pivot = Some([x |-> key.tmp[1], y |-> r.val]),
                                    !.tmp = << >>]
                   ELSE key
  /\ UNCHANGED slc
  /\ SlcFrame

\* mutant: the key is put in front of the ones read before
KeyOk_Prepend ==
  /\ pc = "k_ok"
  /\ slc' = [slc EXCEPT
               !.keys = << [from_frame |-> key.from_frame, origin |-> key.origin,
                            size |-> key.size, slice9 |-> key.slice9,
                            pivot |-> key.pivot] >> \o @,
               !.i = @ + 1]
  /\ pc' = "s_loop"
  /\ UNCHANGED << pos, nreads, read_error, result, key >>
  /\ SlcFrame

\* Ok(Self { from_frame, origin, size, slice9, pivot }), collected into the Vec
KeyOk ==
  /\ pc = "k_ok"
  /\ slc' = [slc EXCEPT
               !.keys = Append(@, [from_frame |-> key.from_frame, origin |-> key.origin,
                                   size |-> key.size, slice9 |-> key.slice9,
                                   pivot |-> key.pivot]),
               !.i = @ + 1]
  /\ pc' = "s_loop"
  /\ UNCHANGED << pos, nreads, read_error, result, key >>
  /\ SlcFrame

PaletteStep ==
  \/ PalTotal \/ PalFirst \/ PalLast \/ PalReserved \/ PalCheck \/ PalCount
  \/ PalLoop \/ PalFlags \/ PalRed \/ PalGreen \/ PalBlue \/ PalAlpha
  \/ PalName \/ PalInsert

SliceStep ==
  \/ SlcNum \/ SlcFlags \/ SlcReserved \/ SlcName \/ SlcLoop
  \/ KeyFromFrame \/ OriginX \/ OriginY \/ SizeWidth \/ SizeHeight
  \/ KeySlice9 \/ Slice9CenterX \/ Slice9CenterY \/ Slice9CenterWidth
  \/ Slice9CenterHeight \/ KeyPivot \/ PivotX \/ PivotY \/ KeyOk

\* ----------------------------------------------------- ColorPalette
num_colors(entries) == Cardinality(DOMAIN entries) % U32Mod

color(entries, index) ==
  IF index \in DOMAIN entries THEN Some(entries[index]) ELSE None

\* mutant: index < num_colors() instead of a lookup
RECURSIVE validate_indexed_pixels_Dense(_, _)
validate_indexed_pixels_Dense(entries, pixels) ==
  IF pixels = << >> THEN Ok(<< >>)
  ELSE IF Head(pixels) < num_colors(entries)
         THEN validate_indexed_pixels_Dense(entries, Tail(pixels))
         ELSE Err(InvalidInput("Index out of range", Head(pixels), num_colors(entries)))

\* for pixel in indexed_pixels { self.color(pixel.value().into()).ok_or_else(..)?; }
\* Ok(())
RECURSIVE validate_indexed_pixels(_, _)
validate_indexed_pixels(entries, pixels) ==
  IF pixels = << >> THEN Ok(<< >>)
  ELSE IF IsSome(color(entries, Head(pixels)))
         THEN validate_indexed_pixels(entries, Tail(pixels))
         ELSE Err(InvalidInput("Index out of range", Head(pixels), num_colors(entries)))

PixelValues == 0..3

Validate ==
  /\ kind = "palette" /\ pc = "done" /\ pass = 1
  /\ result.tag = "Ok" /\ validated.tag = "none"
  /\ \E pixels \in SeqsUpTo(PixelValues, MaxPixels) :
       /\ indexed_pixels' = pixels
       /\ validated' = validate_indexed_pixels(result.value, pixels)
  /\ UNCHANGED << kind, overflow_checks, input, data, pos, nreads, read_error, pc,
                  pal, slc, key, result, pass, derived, first_result >>

\* ------------------------------------- the section-6 layout of a value
MinOf(S) == CHOOSE x \in S : \A y \in S : x <= y
MaxOf(S) == CHOOSE x \in S : \A y \in S : x >= y

\* A palette is laid out from its lowest to its highest index.  With no
\* entry at all, the only header whose record count is zero in u32
\* arithmetic and that passes the range check is first = 0, last = u32::MAX.
EncodePalette(entries) ==
  IF DOMAIN entries = {} THEN PaletteBytes(0, 0, U32Max, << >>)
  ELSE LET first == MinOf(DOMAIN entries)
           last == MaxOf(DOMAIN entries)
           records == [i \in 1..(last - first + 1) |->
                         LET e == entries[first + i - 1] IN
                         [flags |-> IF IsSome(e.name) THEN 1 ELSE 0,
                          rgba8 |-> e.rgba8, name |-> e.name]]
       IN PaletteBytes(Len(records), first, last, records)

EncodeSlice(slice) ==
  LET has9 == \E i \in 1..Len(slice.keys) : IsSome(slice.keys[i].slice9)
      hasPivot == \E i \in 1..Len(slice.keys) : IsSome(slice.keys[i].pivot)
      flags == (IF has9 THEN 1 ELSE 0) + (IF hasPivot THEN 2 ELSE 0)
  IN SliceBytes(Len(slice.keys), flags, slice.name, slice.keys)

Encode(k, value) == IF k = "palette" THEN EncodePalette(value) ELSE EncodeSlice(value)

\* a fresh parse_chunk call on the derived buffer
Restart ==
  /\ pc' = StartPc(kind)
  /\ pos' = 0
  /\ nreads' = 0
  /\ read_error' = None
  /\ pal' = PalLocals0
  /\ slc' = SlcLocals0
  /\ key' = KeyLocals0
  /\ result' = NoResult
  /\ first_result' = result
  /\ pass' = 2
  /\ UNCHANGED << kind, overflow_checks, input, indexed_pixels, validated >>

Decoded == pc = "done" /\ pass = 1 /\ result.tag = "Ok" /\ validated.tag = "none"

Reencode ==
  /\ Decoded
  /\ data' = Encode(kind, result.value)
  /\ derived' = [how |-> "reencoded", at |-> 0, of |-> Len(data)]
  /\ Restart

RemoveAt(d, k) == SubSeq(d, 1, k - 1) \o SubSeq(d, k + 1, Len(d))

\* the buffer of the first pass is exactly the section-6 layout of its header:
\* as many records as the header announces and nothing after them
ExactLayout ==
  IF kind = "palette"
    THEN /\ input.last >= input.first
         /\ Len(input.records) = input.last - input.first + 1
    ELSE Len(input.keys) = input.num

\* a valid chunk buffer (exact layout, decoded successfully) loses one byte
RemoveByte ==
  /\ Decoded
  /\ ExactLayout
  /\ \E k \in 1..Len(data) :
       /\ data' = RemoveAt(data, k)
       /\ derived' = [how |-> "shortened", at |-> k, of |-> Len(data)]
  /\ Restart

Next == PaletteStep \/ SliceStep \/ Validate \/ Reencode \/ RemoveByte

Spec == Init /\ [][Next]_vars

\* ====================================================== the properties

PaletteDone == kind = "palette" /\ pc = "done"
SliceDone == kind = "slice" /\ pc = "done"
PaletteOk == PaletteDone /\ result.tag = "Ok"
SliceOk == SliceDone /\ result.tag = "Ok"

\* the header fields as they stand in the buffer
HdrFirst == dword(data, 4).val
HdrLast == dword(data, 8).val
HdrNumKeys == dword(data, 0).val
HdrFlags == dword(data, 4).val
PaletteHeaderLen == 12 + 8

\* C1: on every successful decode of a palette whose header has
\* last_color_index >= first_color_index, num_colors() equals
\* last_color_index - first_color_index + 1 (as a number, for every pair of
\* u32 values, first = 0 and last = u32::MAX included).
C1_NumColors ==
  (PaletteOk /\ HdrLast >= HdrFirst)
    => num_colors(result.value) = HdrLast - HdrFirst + 1

\* C2: when the header of a palette chunk has last_color_index <
\* first_color_index, parse_chunk fails with InvalidInput carrying the two
\* index values, and nothing is read after the 20 header bytes: the cursor
\* stays at the end of the header and the four header reads are the only ones.
C2_InvertedRange ==
  (PaletteDone /\ read_error = None /\ Len(data) >= PaletteHeaderLen
     /\ HdrLast < HdrFirst)
    => /\ result = Err(InvalidInput("Bad palette color indices", HdrFirst, HdrLast))
       /\ pos = PaletteHeaderLen
       /\ nreads = 4

C2_Witness ==
  /\ PaletteDone /\ pass = 1
  /\ result.tag = "Err" /\ result.error.kind = "InvalidInput"
  /\ result.error.a = U32Max /\ result.error.b = 1
  /\ Len(data) > PaletteHeaderLen

\* C3: on every successful slice decode keys.len() equals the
\* num_slice_keys of the header (0 included), and the i-th key is the i-th
\* key record of the buffer, in on-disk order.
C3_KeysInOrder ==
  SliceOk =>
    /\ Len(result.value.keys) = HdrNumKeys
    /\ pass = 1 =>
         \A i \in 1..Len(result.value.keys) : result.value.keys[i] = input.keys[i]

C3_Witness ==
  /\ SliceOk /\ pass = 1
  /\ Len(result.value.keys) = 2
  /\ result.value.keys[1] # result.value.keys[2]

\* bytes of one key record under the chunk flags: only bits 0 and 1 count
KeyRecordLen(flags) ==
  20 + (IF flags % 2 = 1 THEN 16 ELSE 0) + (IF (flags \div 2) % 2 = 1 THEN 8 ELSE 0)

\* C4: in every successfully decoded Slice, every key has slice9 present if
\* bit 0 of the chunk flags is set and absent if it is not, and the same for
\* bit 1 and pivot; no other flag bit changes what is read (the bytes
\* consumed per key depend on bits 0 and 1 only).
C4_FlagGating ==
  SliceOk =>
    /\ \A i \in 1..Len(result.value.keys) :
         /\ IsSome(result.value.keys[i].slice9) <=> (HdrFlags % 2 = 1)
         /\ IsSome(result.value.keys[i].pivot) <=> ((HdrFlags \div 2) % 2 = 1)
    /\ pos = 14 + Len(result.value.name) + HdrNumKeys * KeyRecordLen(HdrFlags)

C4_Witness ==
  /\ SliceOk /\ pass = 1
  /\ HdrFlags = 4 /\ Len(result.value.keys) = 2
  /\ result.value.keys[2].slice9 = None /\ result.value.keys[2].pivot = None

Shortened == pass = 2 /\ derived.how = "shortened" /\ pc = "done"

\* C5 as stated: a buffer that is exactly the section-6 layout and decodes,
\* shortened by the one byte at any offset, makes parse_chunk return an error.
C5_AnyOffset == (Shortened /\ ExactLayout) => result.tag = "Err"

\* C5 (amended): a buffer that is exactly the section-6 layout and decodes,
\* shortened by its last byte, makes parse_chunk fail with the
\* truncated-input error.
C5_LastByte ==
  (Shortened /\ ExactLayout /\ derived.at = derived.of)
    => result = Err(UnexpectedEof)

C5_Witness ==
  /\ Shortened /\ ExactLayout /\ derived.at = derived.of
  /\ kind = "palette" /\ Cardinality(DOMAIN first_result.value) = 2
  /\ result.tag = "Err"

\* C6: decoding is all-or-nothing: once a primitive read has failed the
\* decode is over (no further read), parse_chunk has returned exactly that
\* read's error, and a value is returned only if no read failed, in which
\* case it is complete (every announced entry or key is in it).
C6_AllOrNothing ==
  /\ IsSome(read_error) => (pc = "done" /\ result = Err(read_error[1]))
  /\ (pc = "done" /\ result.tag = "Ok") =>
       /\ read_error = None
       /\ kind = "palette" => Cardinality(DOMAIN result.value) = pal.count
       /\ kind = "slice" => Len(result.value.keys) = slc.num_slice_keys

C6_Witness ==
  /\ SliceDone /\ pass = 2
  /\ Len(slc.keys) = 1 /\ key.from_frame = 1 /\ IsSome(key.slice9)
  /\ read_error = Some(UnexpectedEof)
  /\ result = Err(UnexpectedEof)

\* the indices of the pixels that are not a key of the palette
Offending(entries, pixels) == { i \in 1..Len(pixels) : pixels[i] \notin DOMAIN entries }

\* C7: validate_indexed_pixels succeeds iff every pixel value is a key of
\* the palette (the empty sequence succeeds); otherwise it fails with
\* InvalidInput naming the first offending pixel value in sequence order and
\* num_colors(); the palette is unchanged by the call.
C7_Validate ==
  /\ [](validated.tag # "none" =>
          LET bad == Offending(result.value, indexed_pixels) IN
          /\ validated.tag = "Ok" <=> bad = {}
          /\ bad # {} =>
               validated = Err(InvalidInput("Index out of range",
                                            indexed_pixels[MinOf(bad)],
                                            Cardinality(DOMAIN result.value))))
  /\ [][validated' # validated => (result' = result /\ data' = data)]_vars

C7_Witness ==
  /\ validated = Err(InvalidInput("Index out of range", 3, 3))
  /\ DOMAIN result.value = {0, 1, 2}
  /\ indexed_pixels = << 0, 3, 1 >>

Reencoded == pass = 2 /\ derived.how = "reencoded" /\ pc = "done"

ReadWidth(p) ==
  CASE p \in {"p_red", "p_green", "p_blue", "p_alpha"} -> 1
    [] p = "p_flags" -> 2
    [] p = "p_reserved" -> 8
    [] p \in {"p_name", "s_name"} -> 2 + word(data, pos).val
    [] OTHER -> 4

\* C9: during a decode the cursor stays between 0 and the buffer length and
\* never decreases; a successful primitive read advances it by exactly the
\* bytes it consumed, a step that reads nothing leaves it alone, and no read
\* goes past the end of the buffer, also when a count or a length prefix
\* announces more data than remains.
C9_Cursor ==
  /\ [](pos \in 0..Len(data))
  /\ [][pass' = pass =>
          /\ pos' >= pos
          /\ nreads' = nreads => pos' = pos
          /\ (nreads' = nreads + 1 /\ read_error' = None) => pos' = pos + ReadWidth(pc)]_vars

C9_Witness ==
  /\ SliceDone /\ pass = 1
  /\ slc.num_slice_keys = U32Max /\ Len(slc.keys) = 2
  /\ result = Err(UnexpectedEof)
  /\ pos = Len(data)

\* C10: on every successful palette decode the keys of the palette are
\* exactly first_color_index..=last_color_index, each entry's id is its
\* key, and the entry at first_color_index + k carries the colour bytes and
\* the name of the k-th record.
C10_ContiguousKeys ==
  PaletteOk =>
    /\ \A k \in DOMAIN result.value :
         /\ HdrFirst <= k /\ k <= HdrLast
         /\ result.value[k].id = k
         /\ pass = 1 =>
              /\ result.value[k].rgba8 = input.records[k - HdrFirst + 1].rgba8
              /\ result.value[k].name = input.records[k - HdrFirst + 1].name
    /\ Cardinality(DOMAIN result.value) = HdrLast - HdrFirst + 1
====
